---- MODULE Spec2Model ----
(***************************************************************************)
(* A model of the link-preview handler of api/index.js: one HTTP request   *)
(* is validated, the page is fetched with axios, metadata is extracted     *)
(* from the parsed document and exactly one JSON response is written.      *)
(*                                                                         *)
(* JavaScript strings that the code inspects character by character       *)
(* (hostname, timeout, sizes, width) are sequences of one-character        *)
(* strings.  JavaScript numbers are records [nan, n] so that NaN is a      *)
(* value.  URL-like strings (attribute values and resolved URLs) are       *)
(* records [scheme, host, path, valid]: scheme "" is a relative reference, *)
(* valid = FALSE is a string that `new URL` throws on.                     *)
(*                                                                         *)
(* An action is a run of the handler between two awaits: JavaScript runs   *)
(* each to completion, so the manifest callbacks started by extractFavicon *)
(* resume only after the handler has sent its response.                    *)
(*                                                                         *)
(* Not modelled: the CORS headers, the description and the scalar          *)
(* metadata of lines 131-135 and 318-367, the extended mode of lines       *)
(* 470-503, the alt and type attributes, the unused images.icons list and  *)
(* the timestamp of a response.  Lines 363, 364 and 367 close a            *)
(* double-quoted string with a single quote; the model reads them as the   *)
(* attribute reads they are meant to be.                                   *)
(***************************************************************************)
EXTENDS Integers, Sequences, FiniteSets, TLC

(***************************************************************************)
(* Bounds of the model.                                                    *)
(***************************************************************************)
\* most elements in a fetched document
MaxElems == 2
\* most entries of the icons array of a fetched manifest
MaxManifestIcons == 1

(***************************************************************************)
(* JavaScript numbers and strings.                                         *)
(***************************************************************************)
Num(n) == [nan |-> FALSE, n |-> n]

NaN == [nan |-> TRUE, n |-> 0]

DigitChars == <<"0", "1", "2", "3", "4", "5", "6", "7", "8", "9">>

IsDigit(c) == \E i \in 1..10 : DigitChars[i] = c

DigitVal(c) == (CHOOSE i \in 1..10 : DigitChars[i] = c) - 1

\* String(n) for a non-negative integer n
RECURSIVE ToDecimal(_)
ToDecimal(n) ==
  IF n < 10 THEN <<DigitChars[n + 1]>>
  ELSE ToDecimal(n \div 10) \o <<DigitChars[(n % 10) + 1]>>

\* value of a string of decimal digits, read left to right
RECURSIVE DigitsValue(_, _)
DigitsValue(s, acc) ==
  IF s = <<>> THEN acc
  ELSE DigitsValue(Tail(s), acc * 10 + DigitVal(Head(s)))

\* longest prefix of s made of decimal digits
RECURSIVE DigitPrefix(_)
DigitPrefix(s) ==
  IF s = <<>> \/ ~IsDigit(Head(s)) THEN <<>>
  ELSE <<Head(s)>> \o DigitPrefix(Tail(s))

RECURSIVE SkipSpaces(_)
SkipSpaces(s) ==
  IF s # <<>> /\ Head(s) = " " THEN SkipSpaces(Tail(s)) ELSE s

\* parseInt(s), radix 10: leading blanks, an optional sign, then the longest
\* run of digits; NaN when there is no digit
parseInt(s) ==
  LET t    == SkipSpaces(s)
      neg  == t # <<>> /\ Head(t) = "-"
      sgn  == t # <<>> /\ Head(t) \in {"-", "+"}
      body == IF sgn THEN Tail(t) ELSE t
      ds   == DigitPrefix(body)
  IN  IF ds = <<>> THEN NaN
      ELSE Num(IF neg THEN 0 - DigitsValue(ds, 0) ELSE DigitsValue(ds, 0))

\* Math.min(a, b): NaN when either argument is NaN
MathMin(a, b) ==
  IF a.nan \/ b.nan THEN NaN
  ELSE IF a.n <= b.n THEN a ELSE b

\* s.split(sep) for a one-character separator
RECURSIVE Split(_, _)
Split(s, sep) ==
  IF \A i \in 1..Len(s) : s[i] # sep THEN <<s>>
  ELSE LET k == CHOOSE i \in 1..Len(s) :
                  s[i] = sep /\ \A j \in 1..(i - 1) : s[j] # sep
       IN  <<SubSeq(s, 1, k - 1)>> \o Split(SubSeq(s, k + 1, Len(s)), sep)

UpperChars == <<"A", "C", "H", "L", "O", "S", "T">>

LowerChars == <<"a", "c", "h", "l", "o", "s", "t">>

\* String.prototype.toLowerCase on the letters the model's inputs use
ToLowerCase(s) ==
  [i \in 1..Len(s) |->
     IF \E k \in 1..Len(UpperChars) : UpperChars[k] = s[i]
     THEN LowerChars[CHOOSE k \in 1..Len(UpperChars) : UpperChars[k] = s[i]]
     ELSE s[i]]

\* needle occurs in s as a contiguous substring
Contains(s, needle) ==
  \E i \in 1..(Len(s) - Len(needle) + 1) :
     SubSeq(s, i, i + Len(needle) - 1) = needle


(***************************************************************************)
(* The request.  `new URL(url)` is the platform's parser: a url parameter  *)
(* is given by whether it parses and, when it does, by the protocol and    *)
(* hostname the parser reports.                                            *)
(***************************************************************************)
H_localhost == <<"l", "o", "c", "a", "l", "h", "o", "s", "t">>

H_LOCALHOST == <<"L", "O", "C", "A", "L", "H", "O", "S", "T">>

H_loopback6 == <<"[", ":", ":", "1", "]">>

H_internal == <<"i", "n", "t", "e", "r", "n", "a", "l">>

H_private == <<"p", "r", "i", "v", "a", "t", "e">>

H_internalExample == <<"i", "n", "t", "e", "r", "n", "a", "l", ".", "e", "x", "a", "m", "p", "l", "e", ".", "c", "o", "m">>

H_myPrivateHost == <<"m", "y", "-", "p", "r", "i", "v", "a", "t", "e", "-", "h", "o", "s", "t", ".", "c", "o", "m">>

H_example == <<"e", "x", "a", "m", "p", "l", "e", ".", "c", "o", "m">>

H_siteTest == <<"s", "i", "t", "e", ".", "t", "e", "s", "t">>

\* dotted-decimal text of the IPv4 address a.b.c.d
IPv4Host(a, b, c, d) ==
  ToDecimal(a) \o <<".">> \o ToDecimal(b) \o <<".">> \o ToDecimal(c)
    \o <<".">> \o ToDecimal(d)

\* first octets of the three private networks, and their neighbours
NetOctets == {10, 172, 192}

NeighbourOctets == {9, 11, 171, 173, 191, 193}

\* second octets around the edges of 172.16.0.0/12 and 192.168.0.0/16
Octet2 == {0, 15, 16, 31, 32, 167, 168, 169}

\* the IPv4 literals of the model, as quadruples
IPv4Quads ==
  {<<a, b, 0, 1>> : a \in NetOctets, b \in Octet2}
    \cup {<<a, b, 0, 1>> : a \in NeighbourOctets, b \in {16, 168}}
    \cup {<<10, 1, 2, 3>>, <<192, 168, 1, 1>>, <<172, 20, 0, 5>>,
          <<8, 8, 8, 8>>, <<127, 0, 0, 1>>, <<0, 0, 0, 0>>,
          <<10, 255, 255, 255>>, <<172, 31, 255, 255>>, <<1, 1, 1, 1>>}

NamedHosts ==
  {H_localhost, H_loopback6, H_internal, H_private, H_internalExample,
   H_myPrivateHost, H_example, H_siteTest}

IPv4Hosts == {IPv4Host(q[1], q[2], q[3], q[4]) : q \in IPv4Quads}

ParsedUrl(protocol, hostname) ==
  [present |-> TRUE, parses |-> TRUE, protocol |-> protocol,
   hostname |-> hostname]

\* a url parameter that is absent or empty
MissingUrl ==
  [present |-> FALSE, parses |-> FALSE, protocol |-> "", hostname |-> <<>>]

\* a url parameter that `new URL` throws on
MalformedUrl ==
  [present |-> TRUE, parses |-> FALSE, protocol |-> "", hostname |-> <<>>]

\* the parser lower-cases the host of http, https and ftp URLs only, and a
\* mailto: URL has an empty hostname
Urls ==
  {MissingUrl, MalformedUrl}
    \cup {ParsedUrl("http:", h) : h \in NamedHosts \cup IPv4Hosts}
    \cup {ParsedUrl(p, h) : p \in {"https:", "ftp:"},
                            h \in {H_example, H_localhost, H_internalExample,
                                   IPv4Host(10, 1, 2, 3), IPv4Host(8, 8, 8, 8)}}
    \cup {ParsedUrl("foo:", H_LOCALHOST), ParsedUrl("foo:", H_example),
          ParsedUrl("mailto:", <<>>)}

NoTimeout == [given |-> FALSE, s |-> <<>>]

GivenTimeout(s) == [given |-> TRUE, s |-> s]

Timeouts ==
  {NoTimeout}
    \cup {GivenTimeout(s) : s \in
            {<<"1">>, <<"5", "0", "0", "0">>, <<"1", "5", "0", "0", "0">>, <<"1", "5", "0", "0", "1">>, <<"2", "0", "0", "0", "0">>, <<"0">>, <<"-", "5">>, <<"a", "b", "c">>, <<"1", "2", "a", "b", "c">>, <<" ", "4", "2">>,
             <<>>}}

Methods == {"GET", "OPTIONS", "POST", "HEAD"}

Request(m, u, t) == [method |-> m, url |-> u, timeout |-> t]

\* every url with the default timeout, every timeout with a few urls, and
\* every method with a few urls
Requests ==
  {Request("GET", u, NoTimeout) : u \in Urls}
    \cup {Request("GET", u, t) :
            u \in {ParsedUrl("http:", H_example), ParsedUrl("https:", H_example),
                   ParsedUrl("http:", H_localhost), MissingUrl},
            t \in Timeouts}
    \cup {Request(m, u, t) :
            m \in Methods,
            u \in {ParsedUrl("http:", H_example), ParsedUrl("http:", H_localhost),
                   MalformedUrl, MissingUrl},
            t \in {NoTimeout, GivenTimeout(<<"0">>)}}

(***************************************************************************)
(* URL validation (handler, lines 36-88).                                  *)
(***************************************************************************)
blockedHosts ==
  <<H_localhost, IPv4Host(127, 0, 0, 1), IPv4Host(0, 0, 0, 0), H_loopback6,
    H_internal, H_private>>

\* Array.prototype.includes: some entry equals x
Includes(arr, x) == \E i \in 1..Len(arr) : arr[i] = x

\* /^(\d{1,3}\.){3}\d{1,3}$/.test(hostname)
ipPattern(hostname) ==
  LET ps == Split(hostname, ".")
  IN  /\ Len(ps) = 4
      /\ \A i \in 1..4 :
            /\ Len(ps[i]) \in 1..3
            /\ \A j \in 1..Len(ps[i]) : IsDigit(ps[i][j])

\* hostname.split('.').map(Number), for a hostname that matches ipPattern
Parts(hostname) ==
  LET ps == Split(hostname, ".")
  IN  [i \in 1..Len(ps) |-> DigitsValue(ps[i], 0)]

\* isPrivate with the upper end of 172.16.0.0/12 off by one
isPrivate_UpperBoundOff(parts) ==
  \/ parts[1] = 10
  \/ (parts[1] = 172 /\ parts[2] >= 16 /\ parts[2] < 31)
  \/ (parts[1] = 192 /\ parts[2] = 168)

isPrivate(parts) ==
  \/ parts[1] = 10
  \/ (parts[1] = 172 /\ parts[2] >= 16 /\ parts[2] <= 31)
  \/ (parts[1] = 192 /\ parts[2] = 168)

Accept == [ok |-> TRUE, status |-> 0, error |-> ""]

Reject(status, error) == [ok |-> FALSE, status |-> status, error |-> error]

\* hostname in the fixed list of blocked hosts
isBlockedHost(hostname) == Includes(blockedHosts, hostname)

\* ValidateUrl without the protocol check
ValidateUrl_NoProtocolCheck(u) ==
  IF ~u.parses THEN Reject(400, "Invalid URL format")
  ELSE LET hostname == ToLowerCase(u.hostname)
       IN  IF isBlockedHost(hostname)
           THEN Reject(403, "Access to local/internal resources is blocked")
           ELSE IF ipPattern(hostname) /\ isPrivate(Parts(hostname))
           THEN Reject(403, "Private IP addresses are not allowed")
           ELSE Accept

\* the checks of lines 38-88 in the order the code makes them
ValidateUrl(u) ==
  IF ~u.parses THEN Reject(400, "Invalid URL format")
  ELSE LET hostname == ToLowerCase(u.hostname)
       IN  IF isBlockedHost(hostname)
           THEN Reject(403, "Access to local/internal resources is blocked")
           ELSE IF ipPattern(hostname) /\ isPrivate(Parts(hostname))
           THEN Reject(403, "Private IP addresses are not allowed")
           ELSE IF u.protocol \notin {"http:", "https:"}
           THEN Reject(400, "Only HTTP and HTTPS protocols are allowed")
           ELSE Accept

(***************************************************************************)
(* The timeout handed to axios (handler, lines 27 and 109).                *)
(***************************************************************************)
DefaultTimeout == 8000

TimeoutCeiling == 15000

\* parseInt converts its argument to a string first, so the numeric default
\* goes through the same parse as a query string
FetchTimeout(t) ==
  MathMin(parseInt(IF t.given THEN t.s ELSE ToDecimal(DefaultTimeout)),
          Num(TimeoutCeiling))


(***************************************************************************)
(* URL-like strings and `new URL(reference, base)`.                        *)
(***************************************************************************)
UrlVal(scheme, host, path, valid) ==
  [scheme |-> scheme, host |-> host, path |-> path, valid |-> valid]

\* null / undefined
Null == UrlVal("null", <<>>, "", FALSE)

\* the empty string
EmptyStr == UrlVal("", <<>>, "", TRUE)

\* a root-relative reference, e.g. /img.png
R_rel == UrlVal("", <<>>, "/img.png", TRUE)

\* a second root-relative reference, e.g. /icon-192.png
R_rel2 == UrlVal("", <<>>, "/icon-192.png", TRUE)

\* a third root-relative reference, e.g. /icon-1024.png
R_rel3 == UrlVal("", <<>>, "/icon-1024.png", TRUE)

\* the href of a manifest link, e.g. /manifest.json
R_manifest == UrlVal("", <<>>, "/manifest.json", TRUE)

\* an absolute https URL on another host
R_abs == UrlVal("https:", <<"c", "d", "n">>, "/a.png", TRUE)

\* a data: URI, e.g. data:image/png;base64,AAAA
R_data == UrlVal("data:", <<>>, "image/png;base64,AAAA", TRUE)

\* a string beginning with http that does not parse, e.g. http://[
R_badHttp == UrlVal("http:", <<"[">>, "", FALSE)

\* a reference that does not parse against any base, e.g. //[
R_badRel == UrlVal("", <<>>, "//[", FALSE)

\* JavaScript truthiness of a string-or-undefined value
Truthy(r) == r # Null /\ r # EmptyStr

\* the request's url as a base: protocol and hostname of the parsed url
Base(u) == [protocol |-> u.protocol, hostname |-> u.hostname]

\* new URL(ref, base): throws on an unparsable string, resolves a relative
\* reference against the base, returns an absolute URL (data: included)
\* as it is
NewURLThrows(ref) == ~ref.valid

NewURLHref(ref, base) ==
  IF ref.scheme = "" THEN UrlVal(base.protocol, base.hostname, ref.path, TRUE)
  ELSE ref

\* relativeUrl.startsWith('http')
StartsWithHttp(ref) == ref.scheme \in {"http:", "https:"}

\* resolveUrl (lines 374-381)
resolveUrl(relativeUrl, base) ==
  IF ~Truthy(relativeUrl) THEN Null
  ELSE IF ~NewURLThrows(relativeUrl) THEN NewURLHref(relativeUrl, base)
  ELSE IF StartsWithHttp(relativeUrl) THEN relativeUrl
  ELSE Null

(***************************************************************************)
(* The parsed document: its elements in document order.  An element has a  *)
(* tag, a key (the property, name or rel attribute), a URL-valued          *)
(* attribute (content, href or src) and a text-valued attribute (content,  *)
(* sizes or width, or the element's text).                                 *)
(***************************************************************************)
Elem(tag, key, ref, val) == [tag |-> tag, key |-> key, ref |-> ref, val |-> val]

S_32x32 == <<"3", "2", "x", "3", "2">>

S_1024x1024 == <<"1", "0", "2", "4", "x", "1", "0", "2", "4">>

S_192x192 == <<"1", "9", "2", "x", "1", "9", "2">>

ElementKinds ==
  {Elem("meta", "og:image", R_rel, <<>>),
   Elem("meta", "og:image", R_data, <<>>),
   Elem("meta", "og:image", R_badRel, <<>>),
   Elem("meta", "twitter:image:src", R_badHttp, <<>>),
   Elem("meta", "og:image:width", Null, <<"6", "0", "0">>),
   Elem("link", "icon", R_rel, S_32x32),
   Elem("link", "icon", R_rel3, S_1024x1024),
   Elem("link", "shortcut icon", R_data, <<>>),
   Elem("link", "apple-touch-icon", R_abs, <<>>),
   Elem("link", "manifest", R_manifest, <<>>),
   Elem("img", "", R_data, <<"2", "0", "0">>),
   Elem("title", "", Null, <<"T">>)}

RECURSIVE SeqsUpTo(_, _)
SeqsUpTo(S, n) ==
  IF n = 0 THEN {<<>>}
  ELSE LET shorter == SeqsUpTo(S, n - 1)
       IN  shorter \cup {Append(d, e) : d \in shorter, e \in S}

Docs == SeqsUpTo(ElementKinds, MaxElems)

\* $('tag[attr="k1"], tag[attr="k2"]'): the matching elements, document order
Select(doc, tag, keys) ==
  SelectSeq(doc, LAMBDA e : e.tag = tag /\ e.key \in keys)

\* $('tag'): every element with the tag
SelectTag(doc, tag) == SelectSeq(doc, LAMBDA e : e.tag = tag)

\* $(selector).attr(name) of a selection: the first element's attribute
FirstRef(sel) == IF sel = <<>> THEN Null ELSE sel[1].ref

FirstVal(sel) == IF sel = <<>> THEN <<>> ELSE sel[1].val

\* $(selector).text(): the text of every selected element, concatenated
RECURSIVE TextOf(_)
TextOf(sel) == IF sel = <<>> THEN <<>> ELSE Head(sel).val \o TextOf(Tail(sel))

\* String.prototype.trim
RECURSIVE TrimEnd(_)
TrimEnd(s) ==
  IF s # <<>> /\ s[Len(s)] = " " THEN TrimEnd(SubSeq(s, 1, Len(s) - 1)) ELSE s

Trim(s) == TrimEnd(SkipSpaces(s))

\* title (lines 122-129): the first non-empty trimmed candidate, <<>> for null
RECURSIVE FirstNonEmpty(_)
FirstNonEmpty(cands) ==
  IF cands = <<>> THEN <<>>
  ELSE IF Trim(Head(cands)) # <<>> THEN Trim(Head(cands))
  ELSE FirstNonEmpty(Tail(cands))

Title(doc) ==
  FirstNonEmpty(<<FirstVal(Select(doc, "meta", {"og:title"})),
                  FirstVal(Select(doc, "meta", {"twitter:title"})),
                  FirstVal(Select(doc, "meta", {"title"})),
                  TextOf(SelectTag(doc, "title")),
                  FirstVal(SelectTag(doc, "h1")),
                  FirstVal(SelectTag(doc, "h2")),
                  FirstVal(Select(doc, "meta", {"og:site_name"}))>>)


(***************************************************************************)
(* extractImages (lines 138-239).                                          *)
(***************************************************************************)
\* a || b on string-or-undefined values
Or(a, b) == IF Truthy(a) THEN a ELSE b

\* the truthy URL attributes of a selection, in order
RECURSIVE TruthyRefs(_)
TruthyRefs(sel) ==
  IF sel = <<>> THEN <<>>
  ELSE (IF Truthy(Head(sel).ref) THEN <<Head(sel).ref>> ELSE <<>>)
         \o TruthyRefs(Tail(sel))

\* insertion into a Set of strings: a value already present is not added
RECURSIVE SetAddAll(_, _)
SetAddAll(set, xs) ==
  IF xs = <<>> THEN set
  ELSE SetAddAll(IF Includes(set, Head(xs)) THEN set ELSE Append(set, Head(xs)),
                 Tail(xs))

\* the strings added to `images` by the four meta loops (lines 142-161)
MetaImageStrings(doc) ==
  SetAddAll(<<>>,
            TruthyRefs(Select(doc, "meta", {"og:image"}))
              \o TruthyRefs(Select(doc, "meta", {"og:image:url"}))
              \o TruthyRefs(Select(doc, "meta", {"twitter:image"}))
              \o TruthyRefs(Select(doc, "meta", {"twitter:image:src"})))

S_unknown == <<"u", "n", "k", "n", "o", "w", "n">>

AppleSelector == {"apple-touch-icon", "apple-touch-icon-precomposed"}

\* the objects added to `images` for Apple touch icons (lines 164-174)
AppleImageObjects(doc) ==
  LET sel == SelectSeq(Select(doc, "link", AppleSelector),
                       LAMBDA e : Truthy(e.ref))
  IN  [i \in 1..Len(sel) |->
         [url |-> sel[i].ref, type |-> "apple-touch-icon",
          sizes |-> IF sel[i].val # <<>> THEN sel[i].val ELSE S_unknown]]

\* Array.from(images).map(...) (lines 224-230): a string is resolved against
\* the request url, or kept as it is when `new URL` throws; an object is kept
ImageArray(doc, base) ==
  LET strs == MetaImageStrings(doc)
  IN  [i \in 1..Len(strs) |->
         [url |-> IF NewURLThrows(strs[i]) THEN strs[i]
                  ELSE NewURLHref(strs[i], base),
          type |-> "meta"]]
        \o AppleImageObjects(doc)

\* x || 0 on numbers
OrZero(x) == IF x.nan \/ x.n = 0 THEN Num(0) ELSE x

\* a * b on numbers
Times(a, b) == IF a.nan \/ b.nan THEN NaN ELSE Num(a.n * b.n)

\* metaImages before the sort (lines 177-189): one entry per og:image:width
\* or og:image:height element, all with the url of the first og:image
MetaImagesUnsorted(doc) ==
  LET dims   == SelectSeq(Select(doc, "meta", {"og:image:width", "og:image:height"}),
                          LAMBDA e : e.val # <<>>)
      url    == FirstRef(Select(doc, "meta", {"og:image"}))
      height == OrZero(parseInt(FirstVal(Select(doc, "meta", {"og:image:height"}))))
  IN  IF ~Truthy(url) THEN <<>>
      ELSE [i \in 1..Len(dims) |->
              [url |-> url, width |-> parseInt(dims[i].val), height |-> height]]

Area(m) == Times(m.width, m.height)

\* the comparator (a, b) => b.width*b.height - a.width*a.height is negative
MetaBefore(a, b) ==
  /\ ~Area(a).nan
  /\ ~Area(b).nan
  /\ Area(b).n - Area(a).n < 0

\* Array.prototype.sort is stable: x goes before the first entry it precedes
RECURSIVE InsertMeta(_, _)
InsertMeta(x, sorted) ==
  IF sorted = <<>> THEN <<x>>
  ELSE IF MetaBefore(x, Head(sorted)) THEN <<x>> \o sorted
  ELSE <<Head(sorted)>> \o InsertMeta(x, Tail(sorted))

RECURSIVE SortMeta(_, _)
SortMeta(todo, sorted) ==
  IF todo = <<>> THEN sorted
  ELSE SortMeta(Tail(todo), InsertMeta(Head(todo), sorted))

\* contentImage (lines 207-221): the first <img> with a src and a width over
\* 100, as a sequence of at most one entry (<<>> is null)
ContentImage(doc) ==
  LET sel == SelectSeq(SelectTag(doc, "img"),
                       LAMBDA e : /\ Truthy(e.ref)
                                  /\ e.val # <<>>
                                  /\ ~parseInt(e.val).nan
                                  /\ parseInt(e.val).n > 100)
  IN  IF sel = <<>> THEN <<>>
      ELSE <<[url |-> sel[1].ref, width |-> parseInt(sel[1].val)]>>

UrlOfFirst(arr) == IF arr = <<>> THEN Null ELSE arr[1].url

extractImages(doc, base) ==
  LET imageArray   == ImageArray(doc, base)
      metaImages   == SortMeta(MetaImagesUnsorted(doc), <<>>)
      contentImage == ContentImage(doc)
  IN  [all |-> imageArray,
       metaImages |-> metaImages,
       contentImage |-> contentImage,
       primary |-> Or(UrlOfFirst(imageArray),
                      Or(UrlOfFirst(metaImages), UrlOfFirst(contentImage)))]


(***************************************************************************)
(* extractFavicon (lines 242-316).                                         *)
(***************************************************************************)
S_16x16 == <<"1", "6", "x", "1", "6">>

S_180x180 == <<"1", "8", "0", "x", "1", "8", "0">>

StandardIconPriority == 16

ApplePriority == 1000

ManifestPriority == 900

ManifestTimeout == 3000

\* link[rel="icon"], link[rel="shortcut icon"] (lines 246-258)
StandardIcons(doc) ==
  LET sel == SelectSeq(Select(doc, "link", {"icon", "shortcut icon"}),
                       LAMBDA e : Truthy(e.ref))
  IN  [i \in 1..Len(sel) |->
         [url |-> sel[i].ref,
          sizes |-> IF sel[i].val # <<>> THEN sel[i].val ELSE S_16x16,
          type |-> "icon/x-icon",
          priority |-> IF sel[i].val # <<>>
                       THEN parseInt(Split(sel[i].val, "x")[1])
                       ELSE Num(StandardIconPriority)]]

\* Apple touch icons (lines 261-272)
AppleIcons(doc) ==
  LET sel == SelectSeq(Select(doc, "link", AppleSelector),
                       LAMBDA e : Truthy(e.ref))
  IN  [i \in 1..Len(sel) |->
         [url |-> sel[i].ref,
          sizes |-> IF sel[i].val # <<>> THEN sel[i].val ELSE S_180x180,
          type |-> "apple-touch-icon",
          priority |-> Num(ApplePriority)]]

\* the manifest fetches started by the async callback (lines 275-279): one
\* per link[rel="manifest"] whose href is set and resolves; each callback
\* runs up to its await and leaves the fetch pending
ManifestFetches(doc, base) ==
  LET sel == SelectSeq(Select(doc, "link", {"manifest"}),
                       LAMBDA e : Truthy(e.ref) /\ ~NewURLThrows(e.ref))
  IN  [i \in 1..Len(sel) |->
         [url |-> NewURLHref(sel[i].ref, base), timeout |-> ManifestTimeout,
          status |-> "pending"]]

\* the comparator (a, b) => b.priority - a.priority is negative
IconBefore(a, b) ==
  /\ ~a.priority.nan
  /\ ~b.priority.nan
  /\ b.priority.n - a.priority.n < 0

RECURSIVE InsertIcon(_, _)
InsertIcon(x, sorted) ==
  IF sorted = <<>> THEN <<x>>
  ELSE IF IconBefore(x, Head(sorted)) THEN <<x>> \o sorted
  ELSE <<Head(sorted)>> \o InsertIcon(x, Tail(sorted))

\* icons.sort(...) (line 299), a stable sort
RECURSIVE SortIcons(_, _)
SortIcons(todo, sorted) ==
  IF todo = <<>> THEN sorted
  ELSE SortIcons(Tail(todo), InsertIcon(Head(todo), sorted))

\* the icons array when the sort runs: the manifest callbacks have not
\* resumed, so it holds the link icons only
IconsAtSort(doc) == StandardIcons(doc) \o AppleIcons(doc)

\* sortedIcons.map(...) (lines 301-310)
ResolveIcons(sortedIcons, base) ==
  [i \in 1..Len(sortedIcons) |->
     IF NewURLThrows(sortedIcons[i].url) THEN sortedIcons[i]
     ELSE [sortedIcons[i] EXCEPT !.url = NewURLHref(@, base)]]

FaviconIco == UrlVal("", <<>>, "/favicon.ico", TRUE)

extractFavicon(doc, base) ==
  LET sortedIcons   == SortIcons(IconsAtSort(doc), <<>>)
      resolvedIcons == ResolveIcons(sortedIcons, base)
  IN  [icons |-> sortedIcons,
       all |-> resolvedIcons,
       primary |-> Or(UrlOfFirst(resolvedIcons), NewURLHref(FaviconIco, base))]

(***************************************************************************)
(* The success response (lines 390-468 and 505).                           *)
(***************************************************************************)
\* arr.map(x => ({...x, url: resolveUrl(x.url)})).filter(x => x.url)
ResolveAndFilter(arr, base) ==
  SelectSeq([i \in 1..Len(arr) |-> [arr[i] EXCEPT !.url = resolveUrl(@, base)]],
            LAMBDA x : Truthy(x.url))

\* contentImage is mapped but not filtered
ResolveContentImage(ci, base) ==
  [i \in 1..Len(ci) |-> [ci[i] EXCEPT !.url = resolveUrl(@, base)]]

baseResponse(u, status, doc) ==
  LET base    == Base(u)
      images  == extractImages(doc, base)
      favicon == extractFavicon(doc, base)
  IN  [success |-> TRUE,
       url |-> UrlVal(u.protocol, u.hostname, "/", TRUE),
       title |-> Title(doc),
       metadata |-> [basic |-> [title |-> Title(doc)]],
       images |-> [primary |-> resolveUrl(images.primary, base),
                   all |-> ResolveAndFilter(images.all, base),
                   metaImages |-> ResolveAndFilter(images.metaImages, base),
                   contentImage |-> ResolveContentImage(images.contentImage, base)],
       icons |-> [primary |-> favicon.primary,
                  all |-> ResolveAndFilter(favicon.all, base)],
       responseInfo |-> [status |-> status]]

(***************************************************************************)
(* axios.get of the page (lines 108-117) and the error path (507-561).     *)
(***************************************************************************)
\* validateStatus (line 113)
validateStatus(status) == status >= 200 /\ status < 500

\* final statuses an origin server answers with
OriginStatuses == {200, 404, 499, 500}

\* an error label: a fixed text, or the template `HTTP ${status}`
ErrLabel(text) == [text |-> text, n |-> 0]

HttpLabel(status) == [text |-> "HTTP ", n |-> status]

NetworkError(cause, code) ==
  [cause |-> cause, code |-> code, hasResponse |-> FALSE, status |-> 0]

\* axios rejects a response whose status fails validateStatus with
\* ERR_BAD_REQUEST (4xx) or ERR_BAD_RESPONSE (otherwise) and err.response set
StatusError(status) ==
  [cause |-> "status",
   code |-> IF status >= 400 /\ status < 500 THEN "ERR_BAD_REQUEST"
            ELSE "ERR_BAD_RESPONSE",
   hasResponse |-> TRUE, status |-> status]

\* the ways axios.get rejects: its timer fires only for a positive timeout
PageErrors(timeout) ==
  {NetworkError("aborted", "ECONNABORTED"),
   NetworkError("refused", "ECONNREFUSED"),
   NetworkError("dns", "ENOTFOUND"),
   NetworkError("reset", "ECONNRESET"),
   NetworkError("redirects", "ERR_FR_TOO_MANY_REDIRECTS")}
    \cup (IF ~timeout.nan /\ timeout.n > 0
          THEN {NetworkError("timeout", "ECONNABORTED")} ELSE {})
    \cup {StatusError(s) : s \in {t \in OriginStatuses : ~validateStatus(t)}}

ErrorInfo(status, error, message) ==
  [status |-> status, error |-> error, message |-> message]

\* errorMap without its ECONNABORTED entry
errorMap_NoTimeoutEntry(code) ==
  CASE code = "ECONNREFUSED" ->
         ErrorInfo(502, ErrLabel("Connection Refused"),
                   "Unable to connect to the website")
    [] code = "ENOTFOUND" ->
         ErrorInfo(404, ErrLabel("Domain Not Found"),
                   "The domain could not be resolved")
    [] code = "ERR_BAD_REQUEST" ->
         ErrorInfo(400, ErrLabel("Bad Request"),
                   "Invalid request to the target website")
    [] code = "ERR_BAD_RESPONSE" ->
         ErrorInfo(502, ErrLabel("Bad Gateway"),
                   "The website returned an invalid response")
    [] OTHER ->
         ErrorInfo(500, ErrLabel("Internal Server Error"), "err.message")

\* errorMap[err.code] || the 500 default (lines 516-548)
errorMap(code) ==
  CASE code = "ECONNABORTED" ->
         ErrorInfo(408, ErrLabel("Request Timeout"),
                   "The website took too long to respond")
    [] code = "ECONNREFUSED" ->
         ErrorInfo(502, ErrLabel("Connection Refused"),
                   "Unable to connect to the website")
    [] code = "ENOTFOUND" ->
         ErrorInfo(404, ErrLabel("Domain Not Found"),
                   "The domain could not be resolved")
    [] code = "ERR_BAD_REQUEST" ->
         ErrorInfo(400, ErrLabel("Bad Request"),
                   "Invalid request to the target website")
    [] code = "ERR_BAD_RESPONSE" ->
         ErrorInfo(502, ErrLabel("Bad Gateway"),
                   "The website returned an invalid response")
    [] OTHER ->
         ErrorInfo(500, ErrLabel("Internal Server Error"), "err.message")

\* the err.response override (lines 550-554)
errorInfo(err) ==
  IF err.hasResponse
  THEN ErrorInfo(err.status, HttpLabel(err.status), "Website returned")
  ELSE errorMap(err.code)

\* the body of the error response (lines 556-560), without its timestamp
ErrorBody(err) ==
  LET info == errorInfo(err)
  IN  [success |-> FALSE, status |-> info.status, error |-> info.error,
       message |-> info.message]


(***************************************************************************)
(* The manifest a manifest fetch returns.                                  *)
(***************************************************************************)
ManifestIconChoices == {[src |-> R_rel2, sizes |-> <<>>]}

\* manifestResponse.data: without an icons array, or with one
ManifestData ==
  {[hasIcons |-> FALSE, icons |-> <<>>]}
    \cup {[hasIcons |-> TRUE, icons |-> a] :
            a \in SeqsUpTo(ManifestIconChoices, MaxManifestIcons)}

NoManifestData == [hasIcons |-> FALSE, icons |-> <<>>]

\* the entries pushed for manifest.icons (lines 281-291)
ManifestIcons(data) ==
  IF ~data.hasIcons THEN <<>>
  ELSE [i \in 1..Len(data.icons) |->
          [url |-> data.icons[i].src,
           sizes |-> IF data.icons[i].sizes # <<>> THEN data.icons[i].sizes
                     ELSE S_192x192,
           type |-> "image/png",
           purpose |-> "any",
           priority |-> Num(ManifestPriority)]]

(***************************************************************************)
(* State.                                                                  *)
(*   pc          where the handler is: "start", "awaitFetch" (suspended at *)
(*               the await of line 108) or "done" (returned)               *)
(*   req         the request                                               *)
(*   responses   the responses written to res, in order                    *)
(*   fetchCalls  the axios.get calls made for the page, in order           *)
(*   pageResult  how the page fetch settled                                *)
(*   icons       the icons array of extractFavicon, which the manifest     *)
(*               callbacks keep a reference to                             *)
(*   manifest    the manifest fetches started, with their status           *)
(***************************************************************************)
VARIABLES pc, req, responses, fetchCalls, pageResult, icons, manifest

vars == <<pc, req, responses, fetchCalls, pageResult, icons, manifest>>

NoResult == [kind |-> "none", status |-> 0, cause |-> "", code |-> ""]

\* res.status(s).end()
EndResponse(status) == [status |-> status, json |-> FALSE]

\* res.status(s).json(body)
JsonResponse(status, body) == [status |-> status, json |-> TRUE, body |-> body]

Init ==
  /\ pc = "start"
  /\ req \in Requests
  /\ responses = <<>>
  /\ fetchCalls = <<>>
  /\ pageResult = NoResult
  /\ icons = <<>>
  /\ manifest = <<>>

\* EarlyResponse with the `return` of the 405 branch missing: the handler
\* sends 405 and goes on to the url checks
EarlyResponse_NoReturn405(r) ==
  (IF r.method \notin {"OPTIONS", "GET"}
   THEN <<JsonResponse(405, [success |-> FALSE,
                             error |-> ErrLabel("Method not allowed. Use GET.")])>>
   ELSE <<>>)
    \o (IF r.method = "OPTIONS" THEN <<EndResponse(200)>>
        ELSE IF ~r.url.present
        THEN <<JsonResponse(400, [success |-> FALSE,
                                  error |-> ErrLabel("Missing ?url= parameter")])>>
        ELSE LET v == ValidateUrl(r.url)
             IN  IF v.ok THEN <<>>
                 ELSE <<JsonResponse(v.status, [success |-> FALSE,
                                                error |-> ErrLabel(v.error)])>>)

\* the response of the synchronous part of the handler (lines 15-88), as a
\* sequence of at most one response: <<>> when the request goes on to the fetch
EarlyResponse(r) ==
  IF r.method = "OPTIONS" THEN <<EndResponse(200)>>
  ELSE IF r.method # "GET"
  THEN <<JsonResponse(405, [success |-> FALSE,
                            error |-> ErrLabel("Method not allowed. Use GET.")])>>
  ELSE IF ~r.url.present
  THEN <<JsonResponse(400, [success |-> FALSE,
                            error |-> ErrLabel("Missing ?url= parameter")])>>
  ELSE LET v == ValidateUrl(r.url)
       IN  IF v.ok THEN <<>>
           ELSE IF ~r.url.parses
           THEN <<JsonResponse(v.status, [success |-> FALSE,
                                          error |-> ErrLabel(v.error),
                                          details |-> "err.message"])>>
           ELSE <<JsonResponse(v.status, [success |-> FALSE,
                                          error |-> ErrLabel(v.error)])>>

\* the handler from its entry to its first return or to the await of the
\* page fetch (lines 4-117)
Handler ==
  /\ pc = "start"
  /\ LET early == EarlyResponse(req)
     IN  IF early # <<>>
         THEN /\ responses' = responses \o early
              /\ pc' = "done"
              /\ UNCHANGED fetchCalls
         ELSE /\ fetchCalls' = Append(fetchCalls,
                                      [url |-> req.url,
                                       timeout |-> FetchTimeout(req.timeout)])
              /\ pc' = "awaitFetch"
              /\ UNCHANGED responses
  /\ UNCHANGED <<req, pageResult, icons, manifest>>

\* axios.get resolves: the rest of the try block runs without another await
\* and sends the success response (lines 119-505)
FetchResolves ==
  /\ pc = "awaitFetch"
  /\ \E status \in {s \in OriginStatuses : validateStatus(s)}, doc \in Docs :
        /\ pageResult' = [kind |-> "resolved", status |-> status,
                          cause |-> "", code |-> ""]
        /\ icons' = extractFavicon(doc, Base(req.url)).icons
        /\ manifest' = [i \in 1..Len(ManifestFetches(doc, Base(req.url))) |->
                          [url |-> ManifestFetches(doc, Base(req.url))[i].url,
                           status |-> "pending",
                           data |-> NoManifestData]]
        /\ responses' = Append(responses,
                               JsonResponse(200, baseResponse(req.url, status, doc)))
  /\ pc' = "done"
  /\ UNCHANGED <<req, fetchCalls>>

\* axios.get rejects: the catch block sends the error response (lines 507-561)
FetchRejects ==
  /\ pc = "awaitFetch"
  /\ \E err \in PageErrors(fetchCalls[Len(fetchCalls)].timeout) :
        /\ pageResult' = [kind |-> "rejected", status |-> err.status,
                          cause |-> err.cause, code |-> err.code]
        /\ responses' = Append(responses,
                               JsonResponse(errorInfo(err).status, ErrorBody(err)))
  /\ pc' = "done"
  /\ UNCHANGED <<req, fetchCalls, icons, manifest>>

\* a manifest fetch resolves and its callback resumes (lines 280-291)
ManifestResolves ==
  \E i \in 1..Len(manifest), data \in ManifestData :
     /\ manifest[i].status = "pending"
     /\ manifest' = [manifest EXCEPT ![i].status = "resolved", ![i].data = data]
     /\ icons' = icons \o ManifestIcons(data)
     /\ UNCHANGED <<pc, req, responses, fetchCalls, pageResult>>

\* ManifestRejects without the try/catch of lines 278-294: the failure
\* reaches the handler's catch block, which sends a 500
ManifestRejects_NotSwallowed ==
  \E i \in 1..Len(manifest) :
     /\ manifest[i].status = "pending"
     /\ manifest' = [manifest EXCEPT ![i].status = "rejected"]
     /\ responses' = Append(responses,
                            JsonResponse(500, ErrorBody(NetworkError("manifest", "ECONNABORTED"))))
     /\ UNCHANGED <<pc, req, fetchCalls, pageResult, icons>>

\* a manifest fetch fails or times out: the catch of line 292 swallows it
ManifestRejects ==
  \E i \in 1..Len(manifest) :
     /\ manifest[i].status = "pending"
     /\ manifest' = [manifest EXCEPT ![i].status = "rejected"]
     /\ UNCHANGED <<pc, req, responses, fetchCalls, pageResult, icons>>

Next ==
  \/ Handler
  \/ FetchResolves
  \/ FetchRejects
  \/ ManifestResolves
  \/ ManifestRejects

Spec == Init /\ [][Next]_vars

TypeOK ==
  /\ pc \in {"start", "awaitFetch", "done"}
  /\ req \in Requests
  /\ Len(responses) \in 0..2
  /\ Len(fetchCalls) \in 0..1


(***************************************************************************)
(* Properties.                                                             *)
(***************************************************************************)
IsGetWithUrl == req.method = "GET" /\ req.url.present

\* the upper 16 bits of the address a.b.c.d
Hi16(q) == q[1] * 256 + q[2]

\* a.b.c.d lies in 10.0.0.0/8, 172.16.0.0/12 or 192.168.0.0/16: its leading
\* 8, 12 or 16 bits are those of the network
InPrivateCidr(q) ==
  \/ Hi16(q) \div 256 = 10
  \/ Hi16(q) \div 16 = 2753
  \/ Hi16(q) = 49320

\* a.b.c.d is neither private, loopback nor in 0.0.0.0/8
IsPublicQuad(q) == ~InPrivateCidr(q) /\ q[1] \notin {0, 127}

\* the request's hostname is the dotted-decimal text of a quadruple in Q
HostIsQuadIn(Q) ==
  \E q \in Q : req.url.hostname = IPv4Host(q[1], q[2], q[3], q[4])

\* the only response so far is a JSON error result
ErrorResponded ==
  /\ Len(responses) = 1
  /\ responses[1].json
  /\ ~responses[1].body.success

\* the url is one the validation is said to reject: malformed, a scheme
\* other than http/https, a blocked host name or a private IPv4 literal
SaidRejected ==
  \/ ~req.url.parses
  \/ req.url.protocol \notin {"http:", "https:"}
  \/ ToLowerCase(req.url.hostname)
       \in {H_localhost, H_loopback6, H_internal, H_private}
  \/ HostIsQuadIn({<<127, 0, 0, 1>>, <<0, 0, 0, 0>>})
  \/ HostIsQuadIn({q \in IPv4Quads : InPrivateCidr(q)})

\* C1: a GET request whose url is rejected by validation (malformed, scheme
\* other than http/https, blocked or private hostname) gets an error
\* response and the page fetch is never issued for it.
C1_RejectedNeverFetched ==
  (IsGetWithUrl /\ SaidRejected) =>
     /\ fetchCalls = <<>>
     /\ pc # "awaitFetch"
     /\ pc = "done" => (ErrorResponded /\ responses[1].status \in {400, 403})

C1_Witness ==
  /\ IsGetWithUrl
  /\ req.url.parses
  /\ req.url.protocol = "ftp:"
  /\ pc = "done"
  /\ ErrorResponded
  /\ responses[1].status = 400
  /\ fetchCalls = <<>>

\* C2: localhost, 127.0.0.1, 0.0.0.0 and every IPv4 literal in 10.0.0.0/8,
\* 172.16.0.0/12 or 192.168.0.0/16 are rejected with 403 and never fetched;
\* a public IPv4 literal or an ordinary public host name over http/https
\* goes on to the fetch.
C2_PrivateRejectedPublicAccepted ==
  (IsGetWithUrl /\ req.url.parses /\ pc # "start") =>
     /\ ( \/ req.url.hostname = H_localhost
          \/ HostIsQuadIn({<<127, 0, 0, 1>>, <<0, 0, 0, 0>>})
          \/ HostIsQuadIn({q \in IPv4Quads : InPrivateCidr(q)}) )
        => (fetchCalls = <<>> /\ ErrorResponded /\ responses[1].status = 403)
     /\ ( /\ req.url.protocol \in {"http:", "https:"}
          /\ \/ req.url.hostname \in {H_example, H_siteTest}
             \/ HostIsQuadIn({q \in IPv4Quads : IsPublicQuad(q)}) )
        => (Len(fetchCalls) = 1 /\ fetchCalls[1].url = req.url)

C2_Witness ==
  /\ IsGetWithUrl
  /\ req.url.hostname = IPv4Host(172, 31, 0, 1)
  /\ pc = "done"
  /\ ErrorResponded
  /\ responses[1].status = 403
  /\ fetchCalls = <<>>

\* C3: every hostname that contains the substring internal or private is
\* rejected and never reaches the fetch.
C3_SubstringHostsRejected ==
  ( /\ IsGetWithUrl
    /\ req.url.parses
    /\ pc # "start"
    /\ \/ Contains(ToLowerCase(req.url.hostname), H_internal)
       \/ Contains(ToLowerCase(req.url.hostname), H_private) )
  => (fetchCalls = <<>> /\ ErrorResponded)

\* the origin answered the page fetch with this status
OriginAnswered(status) ==
  /\ pageResult.kind \in {"resolved", "rejected"}
  /\ pageResult.kind = "rejected" => pageResult.cause = "status"
  /\ pageResult.status = status

\* C4: when the origin answers with a 4xx or 5xx status, the response is an
\* error result with that status, labelled as an upstream HTTP error.
C4_UpstreamStatusPassedThrough ==
  \A status \in 400..599 :
     OriginAnswered(status) =>
        /\ ErrorResponded
        /\ responses[1].status = status
        /\ responses[1].body.error = HttpLabel(status)

\* the fields a body must not have when metadata is not returned
RecordFields == {"metadata", "title", "images", "icons"}

\* C5: when the page fetch times out the response is 408 with the label
\* "Request Timeout", success false, and no metadata, title, images or icons.
C5_TimeoutIs408 ==
  (pageResult.kind = "rejected" /\ pageResult.cause = "timeout") =>
     /\ ErrorResponded
     /\ responses[1].status = 408
     /\ responses[1].body.error = ErrLabel("Request Timeout")
     /\ DOMAIN responses[1].body \cap RecordFields = {}

C5_Witness ==
  /\ pageResult.kind = "rejected"
  /\ pageResult.cause = "timeout"
  /\ pc = "done"
  /\ Len(responses) = 1
  /\ responses[1].status = 408

\* the response is a success record and not an error result
IsSuccessRecord(r) ==
  /\ r.json
  /\ r.body.success
  /\ r.status = 200
  /\ "metadata" \in DOMAIN r.body
  /\ "error" \notin DOMAIN r.body

\* the response is an error result and not a success record
IsErrorResult(r) ==
  /\ r.json
  /\ ~r.body.success
  /\ "error" \in DOMAIN r.body
  /\ DOMAIN r.body \cap RecordFields = {}

\* C6: on every path through the handler exactly one response is sent: none
\* before the handler returns, one when it has returned, never a second one,
\* and for a GET it is either a success record or an error result.
C6_ExactlyOneResponse ==
  /\ [](/\ pc # "done" => responses = <<>>
        /\ pc = "done" => Len(responses) = 1
        /\ (pc = "done" /\ req.method = "GET") =>
              (IsSuccessRecord(responses[1]) \/ IsErrorResult(responses[1])))
  /\ [][responses # <<>> => responses' = responses]_vars

C6_Witness ==
  /\ req.method = "GET"
  /\ pc = "done"
  /\ pageResult.kind = "rejected"
  /\ Len(responses) = 1
  /\ IsErrorResult(responses[1])

IsDataUri(u) == u.scheme = "data:"

NoDataUrl(arr) == \A k \in 1..Len(arr) : ~IsDataUri(arr[k].url)

\* C7: no url with the data: scheme appears in images.all, images.metaImages,
\* images.contentImage, images.primary, icons.all or icons.primary of a
\* response.
C7_NoDataUriSurfaced ==
  \A k \in 1..Len(responses) :
     (responses[k].json /\ responses[k].body.success) =>
        /\ NoDataUrl(responses[k].body.images.all)
        /\ NoDataUrl(responses[k].body.images.metaImages)
        /\ NoDataUrl(responses[k].body.images.contentImage)
        /\ ~IsDataUri(responses[k].body.images.primary)
        /\ NoDataUrl(responses[k].body.icons.all)
        /\ ~IsDataUri(responses[k].body.icons.primary)

\* C8: the timeout handed to the page fetch is a positive number of
\* milliseconds no greater than 15000, and 8000 when the parameter is absent.
C8_TimeoutPositiveAndCapped ==
  \A k \in 1..Len(fetchCalls) :
     /\ ~fetchCalls[k].timeout.nan
     /\ fetchCalls[k].timeout.n > 0
     /\ fetchCalls[k].timeout.n <= 15000
     /\ ~req.timeout.given => fetchCalls[k].timeout.n = 8000

\* C9: the manifest fetch never blocks or fails the response: once the page
\* fetch has resolved the 200 success response has been sent, whatever the
\* state of the manifest fetches; it is sent in the step in which the page
\* fetch resolves, with every manifest fetch still pending; and a manifest
\* failure changes neither the response nor the icons.
C9_ManifestNeverBlocksOrFails ==
  /\ [](pageResult.kind = "resolved" =>
           /\ pc = "done"
           /\ Len(responses) = 1
           /\ IsSuccessRecord(responses[1]))
  /\ [][(pc = "awaitFetch" /\ pageResult'.kind = "resolved") =>
           /\ Len(responses') = 1
           /\ \A i \in 1..Len(manifest') : manifest'[i].status = "pending"]_vars
  /\ [][(\E i \in 1..Len(manifest) :
            manifest[i].status = "pending" /\ manifest'[i].status = "rejected")
        => (responses' = responses /\ icons' = icons /\ pc' = pc)]_vars

C9_Witness ==
  /\ pageResult.kind = "resolved"
  /\ \E i \in 1..Len(manifest) : manifest[i].status = "rejected"
  /\ Len(responses) = 1
  /\ responses[1].status = 200

\* an icon entry that came from a manifest
IsManifestIcon(icon) == icon.type = "image/png" /\ icon.priority = Num(ManifestPriority)

\* C10: when a manifest fetch succeeds with a non-empty icons array, those
\* icons are in icons.all of the response for the request.
C10_ManifestIconsInResponse ==
  (\E i \in 1..Len(manifest) :
      /\ manifest[i].status = "resolved"
      /\ manifest[i].data.hasIcons
      /\ manifest[i].data.icons # <<>>)
  => /\ Len(responses) = 1
     /\ IsSuccessRecord(responses[1])
     /\ \E k \in 1..Len(responses[1].body.icons.all) :
           IsManifestIcon(responses[1].body.icons.all[k])

\* the class of a ranked icon: Apple touch 4, manifest 3, sized standard 2,
\* unsized standard 1.  A standard icon without a sizes attribute is listed
\* with sizes 16x16, a size no document of the model declares.
IconClass(icon) ==
  IF icon.type = "apple-touch-icon" THEN 4
  ELSE IF IsManifestIcon(icon) THEN 3
  ELSE IF icon.sizes # S_16x16 THEN 2
  ELSE 1

\* declared width x height of a "WxH" sizes string
DeclaredArea(icon) ==
  LET wh == Split(icon.sizes, "x")
  IN  IF Len(wh) < 2 THEN NaN ELSE Times(parseInt(wh[1]), parseInt(wh[2]))

\* a is ranked no later than b by class, and by declared area when both are
\* sized standard icons
RankedBefore(a, b) ==
  /\ IconClass(a) >= IconClass(b)
  /\ (IconClass(a) = 2 /\ IconClass(b) = 2 /\ ~DeclaredArea(a).nan
        /\ ~DeclaredArea(b).nan)
     => DeclaredArea(a).n >= DeclaredArea(b).n

\* C11: in icons.all of a response every Apple touch icon precedes every
\* manifest icon, which precedes every sized standard icon, which precedes
\* every unsized standard icon; sized standard icons are in descending order
\* of declared width x height; and icons.primary is the url of the first icon.
C11_IconsRankedByClassAndArea ==
  \A k \in 1..Len(responses) :
     (responses[k].json /\ responses[k].body.success) =>
        LET all == responses[k].body.icons.all
        IN  /\ \A i \in 1..Len(all) : \A j \in (i + 1)..Len(all) :
                  RankedBefore(all[i], all[j])
            /\ all # <<>> => responses[k].body.icons.primary = all[1].url

====
